---- MODULE Spec2Model ----
(***************************************************************************)
(* Recipe-Populator: the recipe scrapers (scrape_individual_recipe.py,     *)
(* scrape_recipes.py) and the CSV store mob_recipes_local.csv they write.  *)
(*                                                                         *)
(* Strings of the program are TLA+ strings.  A URL that the program takes  *)
(* apart (startswith, `in`, re.sub, urlparse) is a sequence of tokens      *)
(* whose concatenation is the URL's text; Str renders it.                  *)
(*                                                                         *)
(* Specifications:                                                         *)
(*   Spec      the two drivers (main of each scraper) run on the store     *)
(*   SpecUrl   one image URL taken through a normalizer, repeatedly        *)
(*   SpecAsm   one call of scrape_recipe / extract_recipe_data, a step per *)
(*             JSON-LD object                                              *)
(*   SpecConc  two concurrent calls of save_to_csv on one store            *)
(***************************************************************************)
EXTENDS Integers, Sequences, FiniteSets, TLC

(***************************************************************************)
(* Bounds of the model.                                                    *)
(***************************************************************************)
\* most lines (header included) the store file holds; operations that would
\* make it longer are not started
MaxLines == 3
\* URLs in the list of scrape_individual_recipe.main (9 in the source)
NumUrls == 2
\* most recipe cards on a collection page
MaxCards == 2

(***************************************************************************)
(* Small helpers.                                                          *)
(***************************************************************************)
Range(s) == {s[i] : i \in 1..Len(s)}

Min(a, b) == IF a < b THEN a ELSE b

RECURSIVE Str(_)
\* the text of a token sequence
Str(toks) == IF toks = <<>> THEN "" ELSE Head(toks) \o Str(Tail(toks))

\* an optional value: None is <<>>, a value v is <<v>>
None == <<>>

Some(v) == <<v>>

(***************************************************************************)
(* The CSV store: csv.DictWriter / csv.DictReader with QUOTE_ALL.  The     *)
(* file is a sequence of lines, a line the sequence of its quoted cells.   *)
(***************************************************************************)
fieldnames ==
    <<"Image", "Title", "Time", "Chef Name", "Chef Image", "Description",
      "Dietary Requirements">>

FieldSet == Range(fieldnames)

\* DictWriter.writerow: the cells of dict d in fieldnames order, a key the dict
\* lacks written as the empty cell (restval)
writerow(d) ==
    [i \in 1..Len(fieldnames) |->
        IF fieldnames[i] \in DOMAIN d THEN d[fieldnames[i]] ELSE ""]

\* DictWriter.writerows
writerows(rows) == [i \in 1..Len(rows) |-> writerow(rows[i])]

\* DictReader: the first line of the file gives the keys (whatever it holds),
\* every later line is a dict over them; of two equal keys the last one wins
DictReaderFieldnames(lines) == IF lines = <<>> THEN <<>> ELSE Head(lines)

LastIndex(fn, k) == CHOOSE j \in 1..Len(fn) : fn[j] = k /\ \A m \in (j+1)..Len(fn) : fn[m] # k

DictReader(lines) ==
    IF lines = <<>> THEN <<>>
    ELSE LET fn == Head(lines)
         IN [i \in 1..(Len(lines) - 1) |->
                [k \in Range(fn) |-> lines[i + 1][LastIndex(fn, k)]]]

\* row['Title'] raises KeyError on the first row read when the file's first
\* line has no Title cell
TitleKeyError(lines) ==
    /\ Len(lines) >= 2
    /\ "Title" \notin Range(DictReaderFieldnames(lines))

(***************************************************************************)
(* Store I/O faults: the environment's choice for one call.                *)
(*   none    no fault                                                      *)
(*   read    open(..., 'r') or the read raises                             *)
(*   open    open(..., 'w' / 'a') raises, the file untouched               *)
(*   write   the write raises after k lines reached the file               *)
(***************************************************************************)
NoFault == [at |-> "none", k |-> 0]

Faults ==
    {NoFault, [at |-> "read", k |-> 0], [at |-> "open", k |-> 0]}
        \cup {[at |-> "write", k |-> n] : n \in 0..(MaxLines - 1)}

(***************************************************************************)
(* IndividualRecipeScraper.save_to_csv                                     *)
(***************************************************************************)
RECURSIVE MergeRows(_, _)
\* the read loop: a row whose Title is the record's is replaced by the record
MergeRows(rows, recipe_data) ==
    IF rows = <<>> THEN <<>>
    ELSE <<IF Head(rows)["Title"] = recipe_data["Title"]
           THEN recipe_data ELSE Head(rows)>>
         \o MergeRows(Tail(rows), recipe_data)

Found(rows, recipe_data) ==
    \E i \in 1..Len(rows) : rows[i]["Title"] = recipe_data["Title"]

\* faulty variant: the read loop never replaces, the record is always appended
RowsToWrite_AppendOnly(exists, lines, recipe_data) ==
    Append(IF exists THEN DictReader(lines) ELSE <<>>, recipe_data)

\* the rows save_to_csv writes back, after the `if not found` append
RowsToWrite(exists, lines, recipe_data) ==
    LET old == IF exists THEN DictReader(lines) ELSE <<>>
    IN IF Found(old, recipe_data)
       THEN MergeRows(old, recipe_data)
       ELSE Append(old, recipe_data)

\* the call's result: ok is the return value, exists/lines the file after it
save_to_csv(recipe_data, exists, lines, fault) ==
    IF exists /\ (fault.at = "read" \/ TitleKeyError(lines))
    THEN [ok |-> FALSE, exists |-> exists, lines |-> lines]
    ELSE IF fault.at = "open"
    THEN [ok |-> FALSE, exists |-> exists, lines |-> lines]
    ELSE LET out == <<fieldnames>>
                        \o writerows(RowsToWrite(exists, lines, recipe_data))
         IN IF fault.at = "write"
            THEN [ok |-> FALSE, exists |-> TRUE,
                  lines |-> SubSeq(out, 1, Min(fault.k, Len(out) - 1))]
            ELSE [ok |-> TRUE, exists |-> TRUE, lines |-> out]

(***************************************************************************)
(* MobScraper.scrape_recipes, the write step: append mode, header only if  *)
(* the file is new.                                                        *)
(***************************************************************************)
\* faulty variant: the header is written whether or not the file is new
AppendLines_AlwaysHeader(file_exists, recipes) ==
    <<fieldnames>> \o writerows(recipes)

AppendLines(file_exists, recipes) ==
    (IF file_exists THEN <<>> ELSE <<fieldnames>>) \o writerows(recipes)

append_to_csv(recipes, exists, lines, fault) ==
    IF fault.at = "open"
    THEN [ok |-> FALSE, exists |-> exists, lines |-> lines]
    ELSE LET new == AppendLines(exists, recipes)
             old == IF exists THEN lines ELSE <<>>
         IN IF fault.at = "write"
            THEN [ok |-> FALSE, exists |-> TRUE,
                  lines |-> old \o SubSeq(new, 1, Min(fault.k, Len(new) - 1))]
            ELSE [ok |-> TRUE, exists |-> TRUE, lines |-> old \o new]

(***************************************************************************)
(* Image URLs.  Tokens: "https:", "//", "/", "?", "&", "=" and runs of     *)
(* characters that hold none of : / ? & = ; a slash occurs only in the     *)
(* tokens "/" and "//".                                                    *)
(***************************************************************************)
PROXY == <<"https:", "//", "images.weserv.nl">>

base_url == <<"https:", "//", "www.mob.co.uk">>

\* the tokens that hold the text 'mob-cdn.co.uk'
CdnTokens == {"files.mob-cdn.co.uk"}

\* the tokens that match _[0-9]+x[0-9]+_crop_[^/]+ from their first character
CropTokens == {"_1200x630_crop_center-center_82_none", "_640x640_crop_center"}

StartsWith(url, pre) ==
    Len(url) >= Len(pre) /\ SubSeq(url, 1, Len(pre)) = pre

HasSlash(tok) == tok \in {"/", "//"}

\* url.startswith('//') and url.startswith('/'), on the text
StartsWithSlashSlash(url) ==
    url # <<>> /\ (Head(url) = "//"
                      \/ (Head(url) = "/" /\ Len(url) >= 2 /\ HasSlash(url[2])))

StartsWithSlash(url) == url # <<>> /\ HasSlash(Head(url))

\* the index of the token that closes a match of
\* /(_[0-9]+x[0-9]+_crop_[^/]+/) opening at the last slash of url[1]; 0: no match
CropMatchEnd(url) ==
    IF Len(url) >= 3 /\ HasSlash(url[1]) /\ url[2] \in CropTokens
          /\ \E j \in 3..Len(url) : HasSlash(url[j])
    THEN CHOOSE j \in 3..Len(url) :
            HasSlash(url[j]) /\ \A m \in 3..(j - 1) : ~HasSlash(url[m])
    ELSE 0

RECURSIVE CropSub(_)
\* re.sub over the text: leftmost matches, the scan resuming after each match
CropSub(url) ==
    IF url = <<>> THEN <<>>
    ELSE LET j == CropMatchEnd(url)
         IN IF j = 0 THEN <<Head(url)>> \o CropSub(Tail(url))
            ELSE <<Head(url)>>
                    \o CropSub((IF url[j] = "//" THEN <<"/">> ELSE <<>>)
                                  \o SubSeq(url, j + 1, Len(url)))

strip_cropping_from_url(url) == IF url = <<>> THEN url ELSE CropSub(url)

\* urllib.parse.quote_plus / unquote_plus, token by token
quote_plus(tok) ==
    CASE tok = "https:" -> "https%3A"
      [] tok = "//" -> "%2F%2F"
      [] tok = "/" -> "%2F"
      [] tok = "?" -> "%3F"
      [] tok = "=" -> "%3D"
      [] tok = "&" -> "%26"
      [] OTHER -> tok

unquote_plus(tok) ==
    CASE tok = "https%3A" -> "https:"
      [] tok = "%2F%2F" -> "//"
      [] tok = "%2F" -> "/"
      [] tok = "%3F" -> "?"
      [] tok = "%3D" -> "="
      [] tok = "%26" -> "&"
      [] OTHER -> tok

QuoteAll(toks) == [i \in 1..Len(toks) |-> quote_plus(toks[i])]

UnquoteAll(toks) == [i \in 1..Len(toks) |-> unquote_plus(toks[i])]

\* index of the first occurrence of token t in toks, 0 when there is none
IndexOf(toks, t) ==
    IF \E i \in 1..Len(toks) : toks[i] = t
    THEN CHOOSE i \in 1..Len(toks) : toks[i] = t /\ \A m \in 1..(i - 1) : toks[m] # t
    ELSE 0

\* urlparse(url): what precedes the first '?', and the query after it
UrlBase(url) ==
    IF IndexOf(url, "?") = 0 THEN url ELSE SubSeq(url, 1, IndexOf(url, "?") - 1)

UrlQuery(url) ==
    IF IndexOf(url, "?") = 0 THEN <<>>
    ELSE SubSeq(url, IndexOf(url, "?") + 1, Len(url))

\* a parsed query: a sequence of [k, vs], keys in order of first occurrence
QsAdd(d, k, v) ==
    IF \E i \in 1..Len(d) : d[i].k = k
    THEN [i \in 1..Len(d) |->
            IF d[i].k = k THEN [k |-> k, vs |-> Append(d[i].vs, v)] ELSE d[i]]
    ELSE Append(d, [k |-> k, vs |-> <<v>>])

\* query_params[k] = [v]
QsSet(d, k, v) ==
    IF \E i \in 1..Len(d) : d[i].k = k
    THEN [i \in 1..Len(d) |-> IF d[i].k = k THEN [k |-> k, vs |-> <<v>>] ELSE d[i]]
    ELSE Append(d, [k |-> k, vs |-> <<v>>])

RECURSIVE parse_qs_from(_, _)
\* parse_qs: fields split on '&', name and value on the first '=', both
\* unquoted; a field with a blank value is dropped (keep_blank_values=False)
parse_qs_from(query, d) ==
    IF query = <<>> THEN d
    ELSE LET a == IndexOf(query, "&")
             field == IF a = 0 THEN query ELSE SubSeq(query, 1, a - 1)
             rest == IF a = 0 THEN <<>> ELSE SubSeq(query, a + 1, Len(query))
             e == IndexOf(field, "=")
             name == IF e = 0 THEN field ELSE SubSeq(field, 1, e - 1)
             value == IF e = 0 THEN <<>> ELSE SubSeq(field, e + 1, Len(field))
         IN parse_qs_from(rest,
                IF value = <<>> THEN d
                ELSE QsAdd(d, UnquoteAll(name), UnquoteAll(value)))

parse_qs(query) == parse_qs_from(query, <<>>)

RECURSIVE EncodeValues(_, _)
EncodeValues(k, vs) ==
    IF vs = <<>> THEN <<>>
    ELSE QuoteAll(k) \o <<"=">> \o QuoteAll(Head(vs))
            \o (IF Len(vs) > 1 THEN <<"&">> ELSE <<>>)
            \o EncodeValues(k, Tail(vs))

RECURSIVE urlencode(_)
\* urlencode(query_params, doseq=True)
urlencode(d) ==
    IF d = <<>> THEN <<>>
    ELSE EncodeValues(Head(d).k, Head(d).vs)
            \o (IF Len(d) > 1 THEN <<"&">> ELSE <<>>)
            \o urlencode(Tail(d))

\* lines 101-114: the sizing keys set in the parsed query, the URL rebuilt
SetSizingParams(url) ==
    LET q0 == parse_qs(UrlQuery(url))
        q1 == QsSet(q0, <<"w">>, <<"640">>)
        q2 == QsSet(q1, <<"h">>, <<"640">>)
        q3 == QsSet(q2, <<"fit">>, <<"cover">>)
        q4 == QsSet(q3, <<"q">>, <<"75">>)
    IN UrlBase(url) \o <<"?">> \o urlencode(q4)

\* "w=640&h=640&fit=cover&q=75"
params ==
    <<"w", "=", "640", "&", "h", "=", "640", "&", "fit", "=", "cover", "&",
      "q", "=", "75">>

ProxyPrefix == PROXY \o <<"/", "?", "url", "=">>

\* IndividualRecipeScraper.format_image_url
format_image_url(url) ==
    IF url = <<>> THEN <<>>
    ELSE IF ~StartsWith(url, PROXY) /\ (\E i \in 1..Len(url) : url[i] \in CdnTokens)
    THEN ProxyPrefix \o url \o <<"&">> \o params
    ELSE IF ~StartsWith(url, PROXY) /\ StartsWithSlashSlash(url)
    THEN ProxyPrefix \o <<"https:">> \o url \o <<"&">> \o params
    ELSE IF ~StartsWith(url, PROXY) /\ StartsWithSlash(url)
    THEN ProxyPrefix \o base_url \o url \o <<"&">> \o params
    ELSE SetSizingParams(url)

\* MobScraper.format_image_url
Mob_format_image_url(url) ==
    IF url = <<>> THEN <<>>
    ELSE IF ~StartsWith(url, PROXY) /\ (\E i \in 1..Len(url) : url[i] \in CdnTokens)
    THEN ProxyPrefix \o url
    ELSE IF ~StartsWith(url, PROXY) /\ StartsWithSlashSlash(url)
    THEN ProxyPrefix \o <<"https:">> \o url
    ELSE IF ~StartsWith(url, PROXY) /\ StartsWithSlash(url)
    THEN ProxyPrefix \o base_url \o url
    ELSE url

\* update_csv_images.format_image_url_for_csv: a proxy URL gets the sizing and
\* format keys set, any other URL is returned as it is
format_image_url_for_csv(url) ==
    IF url = <<>> THEN <<>>
    ELSE IF StartsWith(url, PROXY)
    THEN LET q0 == parse_qs(UrlQuery(url))
             q1 == QsSet(q0, <<"w">>, <<"640">>)
             q2 == QsSet(q1, <<"h">>, <<"640">>)
             q3 == QsSet(q2, <<"fit">>, <<"cover">>)
             q4 == QsSet(q3, <<"q">>, <<"75">>)
             q5 == QsSet(q4, <<"output">>, <<"webp">>)
             q6 == QsSet(q5, <<"af">>, <<>>)
             q7 == QsSet(q6, <<"il">>, <<>>)
         IN UrlBase(url) \o <<"?">> \o urlencode(q7)
    ELSE url

(***************************************************************************)
(* Parsed pages.  A recipe page is what the selectors of the two scrapers  *)
(* find in it:                                                             *)
(*   heroTitle, heroDesc, heroTime, heroChef, heroChefImg, heroImg         *)
(*       the RecipeHero region ("" / <<>>: the element is missing)         *)
(*   lds      the JSON-LD objects, in document order                       *)
(*   og       content of <meta property="og:image">                        *)
(*   descBlock  text of the body-text-sm max-w-prose description block     *)
(* A JSON-LD object: type, name, image = [kind, url] with kind one of      *)
(* "none", "str", "dict", "list", description, about, articleBody,         *)
(* recipeCategory, keywords (the comma-split pieces), suitableForDiet,     *)
(* nutritionDiet (nutrition.suitableForDiet), each a list of strings.      *)
(***************************************************************************)
NoImage == [kind |-> "none", url |-> <<>>]

\* the image of a JSON-LD object: first element of a list, url of a dict, or
\* the string itself; <<>> when the branch assigns nothing
LdImageUrl(ld) == IF ld.image.kind \in {"list", "dict", "str"} THEN ld.image.url ELSE <<>>

LdHasImage(ld) == ld.image.kind \in {"list", "dict", "str"}

\* the dietary tags the model knows, in the order sorted() gives them
SortedTags == <<"", " Vegan ", "Dinner", "Vegan", "Vegetarian">>

\* str.strip()
strip(t) == CASE t = " Vegan " -> "Vegan" [] OTHER -> t

StripAll(ts) == [i \in 1..Len(ts) |-> strip(ts[i])]

\* sorted(set(tags))
SortedSet(tags) == SelectSeq(SortedTags, LAMBDA t : t \in Range(tags))

RECURSIVE Join(_)
\* ', '.join(tags)
Join(tags) ==
    IF tags = <<>> THEN ""
    ELSE IF Len(tags) = 1 THEN Head(tags)
    ELSE Head(tags) \o ", " \o Join(Tail(tags))

\* the default avatar of line 235
DefaultChefImage ==
    "https://images.weserv.nl/?url=https://files.mob-cdn.co.uk/files/PROFILE-ICONS_BLACK-2.png?mtime=1702924115&w=640&h=640&fit=cover&q=75&output=jpg&sharp=1&af=&il="

(***************************************************************************)
(* IndividualRecipeScraper.scrape_recipe.  The working record d carries    *)
(* the two image fields as token sequences until they are cleaned up.      *)
(***************************************************************************)
\* lines 122-174: the record after the RecipeHero pass
HeroPass(page) ==
    [Image |-> page.heroImg, Title |-> page.heroTitle, Time |-> page.heroTime,
     ChefName |-> page.heroChef, ChefImage |-> page.heroChefImg,
     Description |-> page.heroDesc, Dietary |-> "None"]

\* lines 191-196
LdDescription(ld) ==
    IF ld.description # "" THEN ld.description
    ELSE IF ld.about # "" THEN ld.about
    ELSE ld.articleBody

\* lines 198-207
LdDietary(ld) == ld.recipeCategory \o StripAll(ld.keywords)

\* faulty variant: a Recipe object assigns its values over those already there
ApplyRecipeLd_Unguarded(d, ld) ==
    [d EXCEPT
        !.Title = ld.name,
        !.Image = IF LdHasImage(ld) THEN LdImageUrl(ld) ELSE @,
        !.Description = LdDescription(ld),
        !.Dietary = IF LdDietary(ld) # <<>> THEN Join(SortedSet(LdDietary(ld))) ELSE @]

\* lines 180-209: one Recipe object
ApplyRecipeLd(d, ld) ==
    [d EXCEPT
        !.Title = IF d.Title = "" THEN ld.name ELSE @,
        !.Image = IF d.Image = <<>> /\ LdHasImage(ld) THEN LdImageUrl(ld) ELSE @,
        !.Description = IF d.Description = "" THEN LdDescription(ld) ELSE @,
        !.Dietary = IF LdDietary(ld) # <<>> THEN Join(SortedSet(LdDietary(ld))) ELSE @]

\* lines 210-218: one Person object
ApplyPersonLd(d, ld) ==
    [d EXCEPT
        !.ChefName = IF d.ChefName = "" THEN ld.name ELSE @,
        !.ChefImage = IF d.ChefImage = <<>> /\ ld.image.kind \in {"dict", "str"}
                      THEN ld.image.url ELSE @]

RECURSIVE JsonLdPass(_, _)
\* lines 177-218: the loop over the JSON-LD objects
JsonLdPass(d, lds) ==
    IF lds = <<>> THEN d
    ELSE JsonLdPass(
            CASE Head(lds).type = "Recipe" -> ApplyRecipeLd(d, Head(lds))
              [] Head(lds).type = "Person" -> ApplyPersonLd(d, Head(lds))
              [] OTHER -> d,
            Tail(lds))

\* lines 220-224
OgImagePass(d, page) ==
    [d EXCEPT !.Image = IF d.Image = <<>> THEN page.og ELSE @]

\* lines 226-235: the image fields cleaned up, the chef defaults applied
Finish(d) ==
    LET img == Str(format_image_url(strip_cropping_from_url(d.Image)))
        chefImg == Str(format_image_url(strip_cropping_from_url(d.ChefImage)))
    IN [k \in FieldSet |->
            CASE k = "Image" -> img
              [] k = "Title" -> d.Title
              [] k = "Time" -> d.Time
              [] k = "Chef Name" -> IF d.ChefName = "" THEN "Mob" ELSE d.ChefName
              [] k = "Chef Image" -> IF chefImg = "" THEN DefaultChefImage ELSE chefImg
              [] k = "Description" -> d.Description
              [] k = "Dietary Requirements" -> d.Dietary]

\* faulty variant: a failed fetch goes on with an empty document and the record is
\* returned without the check of lines 237-240
scrape_recipe_NoGateOnFailure(fetch) ==
    IF fetch = None
    THEN Some(Finish([Image |-> <<>>, Title |-> "", Time |-> "", ChefName |-> "",
                      ChefImage |-> <<>>, Description |-> "", Dietary |-> "None"]))
    ELSE LET page == fetch[1]
             recipe_data == Finish(OgImagePass(JsonLdPass(HeroPass(page), page.lds), page))
         IN IF recipe_data["Title"] = "" \/ recipe_data["Image"] = ""
            THEN None
            ELSE Some(recipe_data)

\* lines 116-246: fetch is None when make_request raised (caught at 244), else
\* the page; the result is None or the record
scrape_recipe(fetch) ==
    IF fetch = None THEN None
    ELSE LET page == fetch[1]
             recipe_data == Finish(OgImagePass(JsonLdPass(HeroPass(page), page.lds), page))
         IN IF recipe_data["Title"] = "" \/ recipe_data["Image"] = ""
            THEN None
            ELSE Some(recipe_data)

(***************************************************************************)
(* MobScraper.extract_recipe_data.  A listing card is what the selectors   *)
(* find in it: link (the /recipes/ anchor exists), title, timeText,        *)
(* chef ("none": no /chefs/ anchor, "ok", "nodiv": the anchor lacks the    *)
(* whitespace-nowrap div), chefName, src and dataSrc of its <img>.         *)
(* A chef page is its og:image content and its JSON-LD objects.            *)
(***************************************************************************)
\* clean_time_format on the time texts the model uses
clean_time_format(time_text) ==
    CASE time_text = "25 minscook" -> "25 mins"
      [] time_text = "1 hrcook" -> "1 hr"
      [] OTHER -> time_text

\* the 1x1 GIF of line 292
PlaceholderImage ==
    <<"data:image", "/", "gif;base64,R0lGODlhAQABAIAAAAAAAP", "//", "/",
      "yH5BAEAAAAALAAAAAABAAEAAAIBRAA7">>

\* lines 132-135
EmptyDetails == [img |-> <<>>, desc |-> "", diet |-> <<>>, chefImg |-> <<>>]

\* lines 141-192: one Recipe object
MobApplyRecipeLd(x, ld) ==
    [x EXCEPT
        !.img = IF LdHasImage(ld) THEN LdImageUrl(ld) ELSE @,
        !.desc = LdDescription(ld),
        !.diet = @ \o ld.recipeCategory \o StripAll(ld.keywords)
                    \o ld.suitableForDiet \o ld.nutritionDiet]

\* lines 195-207: one Person object
MobApplyPersonLd(x, ld, chef_name) ==
    [x EXCEPT
        !.chefImg = IF ld.name = chef_name /\ ld.image.kind \in {"dict", "str"}
                    THEN ld.image.url ELSE @]

RECURSIVE MobJsonLdPass(_, _, _)
\* lines 138-207
MobJsonLdPass(x, lds, chef_name) ==
    IF lds = <<>> THEN x
    ELSE MobJsonLdPass(
            CASE Head(lds).type = "Recipe" -> MobApplyRecipeLd(x, Head(lds))
              [] Head(lds).type = "Person" -> MobApplyPersonLd(x, Head(lds), chef_name)
              [] OTHER -> x,
            Tail(lds), chef_name)

\* lines 209-240: the description and recipe-image fallbacks
MobFallbacks(x, page, card) ==
    [x EXCEPT
        !.desc = IF @ = "" THEN page.descBlock ELSE @,
        !.img = IF @ # <<>> THEN @
                ELSE IF page.og # <<>> THEN page.og
                ELSE IF card.src # <<>> THEN card.src
                ELSE card.dataSrc]

RECURSIVE ChefPagePersonImage(_, _, _)
\* lines 257-270: the chef page's Person objects, the last match assigning last
ChefPagePersonImage(img, lds, chef_name) ==
    IF lds = <<>> THEN img
    ELSE ChefPagePersonImage(
            IF Head(lds).type = "Person" /\ Head(lds).name = chef_name
                  /\ Head(lds).image.kind \in {"dict", "str"}
            THEN Head(lds).image.url ELSE img,
            Tail(lds), chef_name)

\* lines 250-270
ChefPageImage(chefPage, chef_name) ==
    IF chefPage.og # <<>> THEN chefPage.og
    ELSE ChefPagePersonImage(<<>>, chefPage.lds, chef_name)

\* lines 275-283
DietaryOutput(diet, default_dietary_category) ==
    LET cleaned == SortedSet(SelectSeq(StripAll(diet), LAMBDA t : t # ""))
    IN IF cleaned = <<>> /\ default_dietary_category # ""
       THEN default_dietary_category
       ELSE IF cleaned # <<>> THEN Join(cleaned) ELSE "None"

\* lines 209-306: what follows the JSON-LD loop, x the locals after it;
\* chefFetch is None when make_request raised for the chef page
MobAssemble(card, page, x0, chefFetch, default_dietary_category) ==
    LET chef_name == IF card.chef = "ok" THEN card.chefName ELSE ""
        x == MobFallbacks(x0, page, card)
        needChefPage == x.chefImg = <<>> /\ card.chef = "ok"
    IN IF needChefPage /\ chefFetch = None THEN None
       ELSE LET chef0 == IF needChefPage
                         THEN ChefPageImage(chefFetch[1], chef_name)
                         ELSE x.chefImg
                recipe_img == strip_cropping_from_url(x.img)
                chef_img == strip_cropping_from_url(chef0)
            IN IF Str(recipe_img) = Str(PlaceholderImage) /\ x.desc = ""
               THEN None
               ELSE Some([k \in FieldSet |->
                   CASE k = "Image" -> Str(Mob_format_image_url(recipe_img))
                     [] k = "Title" -> card.title
                     [] k = "Time" -> clean_time_format(card.timeText)
                     [] k = "Chef Image" -> Str(Mob_format_image_url(chef_img))
                     [] k = "Chef Name" -> chef_name
                     [] k = "Description" -> x.desc
                     [] k = "Dietary Requirements" ->
                           DietaryOutput(x.diet, default_dietary_category)])

\* lines 103-130: the card gives no record (no link, no title, a chef anchor
\* without its name div) or the recipe page could not be fetched
CardGivesNothing(card, fetch) ==
    ~card.link \/ card.title = "" \/ card.chef = "nodiv" \/ fetch = None

\* lines 98-309: fetch and chefFetch are None when make_request raised;
\* default_dietary_category "" stands for None.  Every exception inside is
\* caught at 307 and gives None.
extract_recipe_data(card, fetch, chefFetch, default_dietary_category) ==
    IF CardGivesNothing(card, fetch) THEN None
    ELSE LET page == fetch[1]
             chef_name == IF card.chef = "ok" THEN card.chefName ELSE ""
         IN MobAssemble(card, page,
                        MobJsonLdPass(EmptyDetails, page.lds, chef_name),
                        chefFetch, default_dietary_category)

(***************************************************************************)
(* The pages, cards and chef pages the environment serves.                 *)
(***************************************************************************)
T1 == "Salmon Pasta Salad"

T2 == "Korean Marinated Eggs"

EmptyLd ==
    [type |-> "", name |-> "", image |-> NoImage, description |-> "",
     about |-> "", articleBody |-> "", recipeCategory |-> <<>>,
     keywords |-> <<>>, suitableForDiet |-> <<>>, nutritionDiet |-> <<>>]

EmptyPage ==
    [heroTitle |-> "", heroDesc |-> "", heroTime |-> "", heroChef |-> "",
     heroChefImg |-> <<>>, heroImg |-> <<>>, lds |-> <<>>, og |-> <<>>,
     descBlock |-> ""]

CdnCropUrl ==
    <<"https:", "//", "files.mob-cdn.co.uk", "/", "recipes", "/",
      "_1200x630_crop_center-center_82_none", "/", "salad.jpg">>

RecipeLd1 ==
    [EmptyLd EXCEPT !.type = "Recipe", !.name = T1,
                    !.image = [kind |-> "str", url |-> CdnCropUrl],
                    !.description = "A quick salad", !.recipeCategory = <<"Dinner">>]

Pages ==
    { \* hero title and a scheme-relative hero image, nothing else
      [EmptyPage EXCEPT !.heroTitle = T1, !.heroImg = <<"//", "cdn", "/", "x.jpg">>],
      \* no hero region, everything from one Recipe object
      [EmptyPage EXCEPT !.lds = <<RecipeLd1>>],
      \* another recipe, host-relative hero image
      [EmptyPage EXCEPT !.heroTitle = T2, !.heroTime = "25 mins",
                        !.heroImg = <<"/", "img", "/", "eggs.jpg">>,
                        !.heroDesc = "Jammy eggs"],
      \* a title and no image anywhere
      [EmptyPage EXCEPT !.heroTitle = T1],
      \* an image and no title
      [EmptyPage EXCEPT !.heroImg = <<"https:", "//", "other.com", "/", "x.jpg">>] }

\* what make_request gives for a recipe page: None after the retries, or the page
Fetches == {None} \cup {Some(page) : page \in Pages}

EmptyCard ==
    [link |-> TRUE, title |-> "", timeText |-> "", chef |-> "none",
     chefName |-> "", src |-> <<>>, dataSrc |-> <<>>]

Cards ==
    { [EmptyCard EXCEPT !.title = T1],
      [EmptyCard EXCEPT !.title = T2, !.timeText = "25 minscook", !.chef = "ok",
                        !.chefName = "Ben",
                        !.src = <<"https:", "//", "files.mob-cdn.co.uk", "/", "eggs.jpg">>],
      EmptyCard }

ChefPages ==
    { [og |-> <<"https:", "//", "files.mob-cdn.co.uk", "/", "ben.jpg">>, lds |-> <<>>] }

ChefFetches == {None} \cup {Some(c) : c \in ChefPages}

\* default_dietary_category of the call in main, line 375
MainDefaultCategory == "Vegetarian"

\* the two scrapers applied to everything the environment can serve (tables of
\* scrape_recipe and extract_recipe_data over the inputs above)
\* the outcomes of scrape_recipe and of extract_recipe_data over everything the
\* environment can serve: whether make_request raised for the recipe page, and
\* the record returned (None when the URL is skipped)
ScrapeOutcomes ==
    {[fetchFailed |-> fetch = None, rec |-> scrape_recipe(fetch)] : fetch \in Fetches}

ExtractOutcomes ==
    {[fetchFailed |-> fetch = None,
      rec |-> extract_recipe_data(card, fetch, chefFetch, MainDefaultCategory)] :
        card \in Cards, fetch \in Fetches, chefFetch \in ChefFetches}

(***************************************************************************)
(* State.                                                                  *)
(*   exists, file          mob_recipes_local.csv: os.path.exists, its lines*)
(*   backupExists, backup  the file named scraper.backup_file              *)
(*   run, pc, i            the driver running (or run last), where it is,  *)
(*                         the index of the next URL or card               *)
(*   nCards, recipes, success   locals of scrape_recipes and main          *)
(*   ioFailed   history: a store call of this run raised                   *)
(*   afterFail  history: a URL was handled after a store call raised       *)
(*   lastOp     history: the last step of the run, the store before it     *)
(***************************************************************************)
VARIABLES exists, file, backupExists, backup, run, pc, i, nCards, recipes,
          success, ioFailed, afterFail, lastOp,
          normMode, normIn, normOut,
          asmRun, asmPc, asmPage, asmCard, asmChefPage, asmDefault, asmIdx,
          asmData, asmPrev, asmResult,
          cPc, cRec, cRows, cEarly, cStore0

\* the drivers' state apart from the store
driverVars == <<backupExists, backup, run, pc, i, nCards, recipes, success,
                ioFailed, afterFail, lastOp>>

\* one image URL being normalized (see "The normalizer alone")
normVars == <<normMode, normIn, normOut>>

\* one call of scrape_recipe or extract_recipe_data, statement by statement
\* (see "The assemblers, step by step")
asmVars == <<asmRun, asmPc, asmPage, asmCard, asmChefPage, asmDefault, asmIdx,
             asmData, asmPrev, asmResult>>

\* two concurrent calls of save_to_csv (see "Two writers")
concVars == <<cPc, cRec, cRows, cEarly, cStore0>>

vars == <<exists, file, driverVars, normVars, asmVars, concVars>>

\* op: the step; ok: it raised nothing; rec: the record it produced;
\* fetchFailed: make_request raised in it; again: it is a save_to_csv that
\* directly follows a successful save_to_csv of the same record
Op(op, ok, rec, fetchFailed, again) ==
    [op |-> op, ok |-> ok, rec |-> rec, fetchFailed |-> fetchFailed,
     again |-> again, before |-> file, beforeExists |-> exists]

NoOp == [op |-> "none", ok |-> TRUE, rec |-> None, fetchFailed |-> FALSE,
         again |-> FALSE, before |-> <<>>, beforeExists |-> FALSE]

\* nothing is being normalized
NormIdle == normMode = "" /\ normIn = <<>> /\ normOut = <<>>

\* no assembler call is traced
AsmIdle ==
    /\ asmRun = "" /\ asmPc = "idle" /\ asmPage = None /\ asmCard = None
    /\ asmChefPage = None /\ asmDefault = "" /\ asmIdx = 1
    /\ asmData = None /\ asmPrev = None
    /\ asmResult = None

\* no concurrent writers
ConcIdle ==
    /\ cPc = <<>> /\ cRec = <<>> /\ cRows = <<>> /\ cEarly = TRUE
    /\ cStore0 = None

\* no driver has run
DriverIdle ==
    /\ backupExists = FALSE
    /\ backup = <<>>
    /\ run = "none"
    /\ pc = "idle"
    /\ i = 1
    /\ nCards = 0
    /\ recipes = <<>>
    /\ success = TRUE
    /\ ioFailed = FALSE
    /\ afterFail = FALSE
    /\ lastOp = NoOp

Init ==
    /\ exists = FALSE
    /\ file = <<>>
    /\ DriverIdle
    /\ NormIdle /\ AsmIdle /\ ConcIdle

(***************************************************************************)
(* scrape_individual_recipe.main                                           *)
(***************************************************************************)
\* lines 277-289
StartIndividual ==
    /\ UNCHANGED <<normVars, asmVars, concVars>>
    /\ pc = "idle"
    /\ run' = "individual"
    /\ pc' = "urls"
    /\ i' = 1
    /\ ioFailed' = FALSE
    /\ afterFail' = FALSE
    /\ lastOp' = NoOp
    /\ success' = TRUE
    /\ UNCHANGED <<exists, file, backupExists, backup, nCards, recipes>>

\* lines 290-296: one iteration of the loop; the return value of save_to_csv
\* is not looked at
IndividualUrl ==
    /\ UNCHANGED <<normVars, asmVars, concVars>>
    /\ pc = "urls"
    /\ i <= NumUrls
    /\ \E scraped \in ScrapeOutcomes :
          LET recipe_data == scraped.rec
          IN IF recipe_data = None
             THEN /\ lastOp' = Op("skip", TRUE, None, scraped.fetchFailed, FALSE)
                  /\ UNCHANGED <<exists, file, ioFailed>>
             ELSE \E w \in {save_to_csv(recipe_data[1], exists, file, fault) :
                                fault \in Faults} :
                       /\ Len(w.lines) <= MaxLines
                       /\ exists' = w.exists
                       /\ file' = w.lines
                       /\ ioFailed' = (ioFailed \/ ~w.ok)
                       /\ lastOp' = Op("upsert", w.ok, recipe_data,
                                       scraped.fetchFailed,
                                       lastOp.op = "upsert" /\ lastOp.ok
                                          /\ lastOp.rec = recipe_data)
    /\ afterFail' = (afterFail \/ ioFailed)
    /\ i' = i + 1
    /\ UNCHANGED <<backupExists, backup, run, pc, nCards, recipes, success>>

\* the loop is over: main returns
IndividualDone ==
    /\ UNCHANGED <<normVars, asmVars, concVars>>
    /\ pc = "urls"
    /\ i > NumUrls
    /\ pc' = "idle"
    /\ UNCHANGED <<exists, file, backupExists, backup, run, i, nCards, recipes,
                   success, ioFailed, afterFail, lastOp>>

(***************************************************************************)
(* scrape_recipes.main and MobScraper.scrape_recipes                       *)
(***************************************************************************)
\* MobScraper.backup_existing_csv.  No line of the repository calls it.
backup_existing_csv(storeExists, lines, bkExists, bk) ==
    IF storeExists
    THEN [backupExists |-> TRUE, backup |-> lines]
    ELSE [backupExists |-> bkExists, backup |-> bk]

\* main, lines 370-375: MobScraper() names a fresh backup file
StartBatch ==
    /\ UNCHANGED <<normVars, asmVars, concVars>>
    /\ pc = "idle"
    /\ run' = "batch"
    /\ pc' = "listing"
    /\ backupExists' = FALSE
    /\ backup' = <<>>
    /\ i' = 1
    /\ nCards' = 0
    /\ recipes' = <<>>
    /\ success' = TRUE
    /\ ioFailed' = FALSE
    /\ afterFail' = FALSE
    /\ lastOp' = NoOp
    /\ UNCHANGED <<exists, file>>

\* scrape_recipes, lines 326-339: the collection page; listing is None when
\* make_request raised, else the number of cards found
FetchListing ==
    /\ UNCHANGED <<normVars, asmVars, concVars>>
    /\ pc = "listing"
    /\ \E listing \in {None} \cup {Some(n) : n \in 0..MaxCards} :
          IF listing = None \/ listing = Some(0)
          THEN /\ success' = FALSE
               /\ pc' = "end"
               /\ lastOp' = Op("listing", FALSE, None, listing = None, FALSE)
               /\ UNCHANGED nCards
          ELSE /\ nCards' = listing[1]
               /\ pc' = "cards"
               /\ lastOp' = Op("listing", TRUE, None, FALSE, FALSE)
               /\ UNCHANGED success
    /\ UNCHANGED <<exists, file, backupExists, backup, run, i, recipes, ioFailed,
                   afterFail>>

\* scrape_recipes, lines 342-346: one card
ExtractCard ==
    /\ UNCHANGED <<normVars, asmVars, concVars>>
    /\ pc = "cards"
    /\ i <= nCards
    /\ \E extracted \in ExtractOutcomes :
          LET recipe_data == extracted.rec
          IN /\ Len(AppendLines(exists, recipes \o recipe_data))
                    <= MaxLines - (IF exists THEN Len(file) ELSE 0)
             /\ recipes' = recipes \o recipe_data
             /\ lastOp' = Op("card", TRUE, recipe_data, extracted.fetchFailed, FALSE)
    /\ i' = i + 1
    /\ UNCHANGED <<exists, file, backupExists, backup, run, pc, nCards, success,
                   ioFailed, afterFail>>

\* scrape_recipes, lines 348-368: the write step and the return value
WriteCsv ==
    /\ UNCHANGED <<normVars, asmVars, concVars>>
    /\ pc = "cards"
    /\ i > nCards
    /\ IF recipes = <<>>
       THEN /\ success' = FALSE
            /\ lastOp' = Op("no_recipes", FALSE, None, FALSE, FALSE)
            /\ UNCHANGED <<exists, file, ioFailed>>
       ELSE \E w \in {append_to_csv(recipes, exists, file, fault) :
                           fault \in Faults} :
                  /\ exists' = w.exists
                  /\ file' = w.lines
                  /\ success' = w.ok
                  /\ ioFailed' = ~w.ok
                  /\ lastOp' = Op("append", w.ok, None, FALSE, FALSE)
    /\ pc' = "end"
    /\ UNCHANGED <<backupExists, backup, run, i, nCards, recipes, afterFail>>

\* main, lines 377-386; the locals of scrape_recipes are gone
BatchEnd ==
    /\ UNCHANGED <<normVars, asmVars, concVars>>
    /\ pc = "end"
    /\ IF ~success /\ backupExists
       THEN /\ file' = backup
            /\ exists' = TRUE
            /\ backupExists' = FALSE
            /\ backup' = <<>>
       ELSE UNCHANGED <<exists, file, backupExists, backup>>
    /\ pc' = "idle"
    /\ i' = 1
    /\ nCards' = 0
    /\ recipes' = <<>>
    /\ UNCHANGED <<run, success, ioFailed, afterFail, lastOp>>

Next ==
    \/ StartIndividual
    \/ IndividualUrl
    \/ IndividualDone
    \/ StartBatch
    \/ FetchListing
    \/ ExtractCard
    \/ WriteCsv
    \/ BatchEnd

Spec == Init /\ [][Next]_vars

(***************************************************************************)
(* The normalizer alone.  One image URL is taken through a normalizer one  *)
(* or more times: the composition of lines 227-228 of scrape_recipe, the   *)
(* one of lines 288-300 of extract_recipe_data, format_image_url_for_csv   *)
(* as update_csv_image_urls applies it to a cell, or format_image_url      *)
(* without the stripping.                                                  *)
(*   normIn    the URL given                                               *)
(*   normMode  the normalizer applied to it ("": none yet)                 *)
(*   normOut   the results of its successive applications                  *)
(***************************************************************************)
\* how many times in a row a normalizer is applied
MaxApplications == 2

Urls ==
    { <<>>,
      \* a crop segment on the CDN
      <<"https:", "//", "files.mob-cdn.co.uk", "/", "recipes", "/",
        "_1200x630_crop_center-center_82_none", "/", "salad.jpg">>,
      \* the CDN, nothing to strip
      <<"https:", "//", "files.mob-cdn.co.uk", "/", "eggs.jpg">>,
      \* the CDN with a query
      <<"https:", "//", "files.mob-cdn.co.uk", "/", "a.jpg", "?", "mtime",
        "=", "1">>,
      \* scheme-relative
      <<"//", "cdn", "/", "x.jpg">>,
      \* scheme-relative on the CDN
      <<"//", "files.mob-cdn.co.uk", "/", "a.jpg">>,
      \* host-relative
      <<"/", "img", "/", "eggs.jpg">>,
      \* two crop segments in a row
      <<"/", "_640x640_crop_center", "/",
        "_1200x630_crop_center-center_82_none", "/", "c.jpg">>,
      \* another host
      <<"https:", "//", "other.com", "/", "x.jpg">>,
      \* another host with a query
      <<"https:", "//", "other.com", "/", "x.jpg", "?", "w", "=", "1", "&",
        "z", "=", "2">>,
      \* another host with a crop segment
      <<"https:", "//", "other.com", "/", "_640x640_crop_center", "/",
        "x.jpg">>,
      \* a relative path
      <<"img", "/", "x.jpg">>,
      \* proxy URLs
      <<"https:", "//", "images.weserv.nl", "/", "?", "url", "=", "https:",
        "//", "files.mob-cdn.co.uk", "/", "a.jpg", "&", "w", "=", "100", "&",
        "af", "=", "&", "il", "=">>,
      <<"https:", "//", "images.weserv.nl", "/", "?", "url", "=", "https%3A",
        "%2F%2F", "files.mob-cdn.co.uk", "%2F", "a.jpg", "&", "w", "=",
        "640", "&", "h", "=", "640", "&", "fit", "=", "cover", "&", "q", "=",
        "75">>,
      <<"https:", "//", "images.weserv.nl", "/", "?", "url", "=", "https:",
        "//", "files.mob-cdn.co.uk", "/", "a.jpg", "?", "mtime", "=", "1",
        "&", "w", "=", "640", "&", "h", "=", "640", "&", "fit", "=", "cover",
        "&", "q", "=", "75", "&", "output", "=", "jpg">>,
      <<"https:", "//", "images.weserv.nl", "/", "?", "w", "=", "1", "&",
        "w", "=", "2", "&", "url", "=", "/", "a", "&", "x">>,
      <<"https:", "//", "images.weserv.nl", "/", "?", "url", "=", "https:",
        "//", "files.mob-cdn.co.uk", "/", "_640x640_crop_center", "/",
        "a.jpg">> }

\* the value the next application is given
NormArg == IF normOut = <<>> THEN normIn ELSE normOut[Len(normOut)]

InitUrl ==
    /\ exists = FALSE
    /\ file = <<>>
    /\ DriverIdle /\ AsmIdle /\ ConcIdle
    /\ normMode = ""
    /\ normIn \in Urls
    /\ normOut = <<>>

\* scrape_recipe, lines 227-228
NormalizeIndividual ==
    /\ normMode \in {"", "individual"}
    /\ Len(normOut) < MaxApplications
    /\ normMode' = "individual"
    /\ normOut' = Append(normOut, format_image_url(strip_cropping_from_url(NormArg)))
    /\ UNCHANGED <<exists, file, driverVars, asmVars, concVars, normIn>>

\* extract_recipe_data, lines 288-300
NormalizeMob ==
    /\ normMode \in {"", "mob"}
    /\ Len(normOut) < MaxApplications
    /\ normMode' = "mob"
    /\ normOut' = Append(normOut, Mob_format_image_url(strip_cropping_from_url(NormArg)))
    /\ UNCHANGED <<exists, file, driverVars, asmVars, concVars, normIn>>

\* update_csv_image_urls, lines 50-55: a non-empty cell
NormalizeCsv ==
    /\ normMode \in {"", "csv"}
    /\ Len(normOut) < MaxApplications
    /\ NormArg # <<>>
    /\ normMode' = "csv"
    /\ normOut' = Append(normOut, format_image_url_for_csv(NormArg))
    /\ UNCHANGED <<exists, file, driverVars, asmVars, concVars, normIn>>

\* IndividualRecipeScraper.format_image_url on the URL as given
FormatIndividual ==
    /\ normMode = ""
    /\ normMode' = "format_image_url"
    /\ normOut' = <<format_image_url(normIn)>>
    /\ UNCHANGED <<exists, file, driverVars, asmVars, concVars, normIn>>

\* MobScraper.format_image_url on the URL as given
FormatMob ==
    /\ normMode = ""
    /\ normMode' = "Mob_format_image_url"
    /\ normOut' = <<Mob_format_image_url(normIn)>>
    /\ UNCHANGED <<exists, file, driverVars, asmVars, concVars, normIn>>

NextUrl ==
    \/ NormalizeIndividual
    \/ NormalizeMob
    \/ NormalizeCsv
    \/ FormatIndividual
    \/ FormatMob

SpecUrl == InitUrl /\ [][NextUrl]_vars

(***************************************************************************)
(* The assemblers, step by step.  One call of scrape_recipe or of          *)
(* extract_recipe_data on a page the environment serves, a step per        *)
(* JSON-LD object.                                                         *)
(*   asmRun       the function called                                      *)
(*   asmPage      what make_request gave for the recipe page (None: raised)*)
(*   asmCard, asmChefPage, asmDefault   the card, what make_request gives  *)
(*                for the chef page, default_dietary_category ("": None)   *)
(*   asmPc, asmIdx   where the call is, the index of the next object       *)
(*   asmData      recipe_data (scrape_recipe) or the locals recipe_img,    *)
(*                description, dietary_requirements, chef_img              *)
(*   asmPrev      history: asmData before the last step                    *)
(*   asmResult    the value returned                                       *)
(***************************************************************************)
\* most JSON-LD objects on a page
MaxLds == 2

EggsImage == <<"https:", "//", "files.mob-cdn.co.uk", "/", "eggs.jpg">>

RecipeLd2 ==
    [EmptyLd EXCEPT !.type = "Recipe", !.name = T2,
                    !.image = [kind |-> "dict", url |-> EggsImage],
                    !.about = "About eggs", !.recipeCategory = <<" Vegan ">>,
                    !.keywords = <<"Vegan", "">>,
                    !.suitableForDiet = <<"Vegetarian">>]

\* a Recipe object with nothing in it
RecipeLd3 == [EmptyLd EXCEPT !.type = "Recipe"]

PersonBen ==
    [EmptyLd EXCEPT !.type = "Person", !.name = "Ben",
                    !.image = [kind |-> "str",
                               url |-> <<"https:", "//", "files.mob-cdn.co.uk",
                                         "/", "ben.jpg">>]]

PersonTom ==
    [EmptyLd EXCEPT !.type = "Person", !.name = "Tom",
                    !.image = [kind |-> "dict",
                               url |-> <<"https:", "//", "files.mob-cdn.co.uk",
                                         "/", "tom.jpg">>]]

LdObjects == {RecipeLd1, RecipeLd2, RecipeLd3, PersonBen, PersonTom}

\* the sequences over S of length at most n
SeqsUpTo(S, n) == UNION {[1..m -> S] : m \in 0..n}

OgImage == <<"https:", "//", "other.com", "/", "og.jpg">>

\* the recipe pages scrape_recipe is given: each hero element there or not
ScrapePages ==
    {[heroTitle |-> t, heroDesc |-> ds, heroTime |-> "", heroChef |-> c,
      heroChefImg |-> ci, heroImg |-> im, lds |-> l, og |-> o, descBlock |-> ""] :
        t \in {"", T1}, ds \in {"", "Hero description"}, c \in {"", "Ben"},
        ci \in {<<>>, <<"/", "img", "/", "ben-hero.jpg">>},
        im \in {<<>>, <<"//", "cdn", "/", "x.jpg">>},
        l \in SeqsUpTo(LdObjects, MaxLds), o \in {<<>>, OgImage}}

\* the recipe pages extract_recipe_data is given (it reads no hero element)
ExtractPages ==
    {[EmptyPage EXCEPT !.lds = l, !.og = o, !.descBlock = b] :
        l \in SeqsUpTo(LdObjects, MaxLds), o \in {<<>>, OgImage},
        b \in {"", "Block description"}}

AsmCards ==
    Cards \cup {[EmptyCard EXCEPT !.title = T1, !.src = PlaceholderImage],
                [EmptyCard EXCEPT !.title = T1, !.chef = "nodiv"]}

AsmChefFetches ==
    ChefFetches \cup {Some([og |-> <<>>, lds |-> <<PersonTom, PersonBen>>])}

InitAsm ==
    /\ exists = FALSE
    /\ file = <<>>
    /\ DriverIdle /\ NormIdle /\ ConcIdle
    /\ asmPc = "idle" /\ asmIdx = 1
    /\ asmData = None /\ asmPrev = None /\ asmResult = None
    /\ \/ /\ asmRun = "scrape_recipe"
          /\ asmPage \in {None} \cup {Some(p) : p \in ScrapePages}
          /\ asmCard = None /\ asmChefPage = None /\ asmDefault = ""
       \/ /\ asmRun = "extract_recipe_data"
          /\ asmPage \in {None} \cup {Some(p) : p \in ExtractPages}
          /\ asmCard \in {Some(c) : c \in AsmCards}
          /\ asmChefPage \in AsmChefFetches
          /\ asmDefault \in {"", MainDefaultCategory}

\* chef_name of extract_recipe_data, line 123
AsmChefName == IF asmCard[1].chef = "ok" THEN asmCard[1].chefName ELSE ""

\* scrape_recipe, lines 118-174: the fetch and the RecipeHero pass
HeroStep ==
    /\ asmRun = "scrape_recipe" /\ asmPc = "idle"
    /\ IF asmPage = None
       THEN asmPc' = "done" /\ UNCHANGED asmData
       ELSE asmPc' = "jsonld" /\ asmData' = HeroPass(asmPage[1])
    /\ UNCHANGED <<exists, file, driverVars, normVars, concVars, asmRun, asmPage,
                   asmCard, asmChefPage, asmDefault, asmIdx, asmPrev, asmResult>>

\* scrape_recipe, lines 178-218: one JSON-LD object
JsonLdStep ==
    /\ asmRun = "scrape_recipe" /\ asmPc = "jsonld"
    /\ asmIdx <= Len(asmPage[1].lds)
    /\ LET ld == asmPage[1].lds[asmIdx]
       IN asmData' = CASE ld.type = "Recipe" -> ApplyRecipeLd(asmData, ld)
                       [] ld.type = "Person" -> ApplyPersonLd(asmData, ld)
                       [] OTHER -> asmData
    /\ asmPrev' = asmData
    /\ asmIdx' = asmIdx + 1
    /\ UNCHANGED <<exists, file, driverVars, normVars, concVars, asmRun, asmPc,
                   asmPage, asmCard, asmChefPage, asmDefault, asmResult>>

\* scrape_recipe, lines 220-224: the og:image fallback
OgStep ==
    /\ asmRun = "scrape_recipe" /\ asmPc = "jsonld"
    /\ asmIdx > Len(asmPage[1].lds)
    /\ asmData' = OgImagePass(asmData, asmPage[1])
    /\ asmPrev' = asmData
    /\ asmPc' = "finish"
    /\ UNCHANGED <<exists, file, driverVars, normVars, concVars, asmRun, asmPage,
                   asmCard, asmChefPage, asmDefault, asmIdx, asmResult>>

\* scrape_recipe, lines 226-242: clean-up, defaults, the check of Title and Image
FinishStep ==
    /\ asmRun = "scrape_recipe" /\ asmPc = "finish"
    /\ LET recipe_data == Finish(asmData)
       IN asmResult' = IF recipe_data["Title"] = "" \/ recipe_data["Image"] = ""
                       THEN None ELSE Some(recipe_data)
    /\ asmPc' = "done"
    /\ UNCHANGED <<exists, file, driverVars, normVars, concVars, asmRun, asmPage,
                   asmCard, asmChefPage, asmDefault, asmIdx, asmData, asmPrev>>

\* extract_recipe_data, lines 101-135: the card and the fetch of its page
CardStep ==
    /\ asmRun = "extract_recipe_data" /\ asmPc = "idle"
    /\ IF CardGivesNothing(asmCard[1], asmPage)
       THEN asmPc' = "done" /\ UNCHANGED asmData
       ELSE asmPc' = "jsonld" /\ asmData' = EmptyDetails
    /\ UNCHANGED <<exists, file, driverVars, normVars, concVars, asmRun, asmPage,
                   asmCard, asmChefPage, asmDefault, asmIdx, asmPrev, asmResult>>

\* extract_recipe_data, lines 138-207: one JSON-LD object
MobJsonLdStep ==
    /\ asmRun = "extract_recipe_data" /\ asmPc = "jsonld"
    /\ asmIdx <= Len(asmPage[1].lds)
    /\ LET ld == asmPage[1].lds[asmIdx]
       IN asmData' = CASE ld.type = "Recipe" -> MobApplyRecipeLd(asmData, ld)
                       [] ld.type = "Person" ->
                            MobApplyPersonLd(asmData, ld, AsmChefName)
                       [] OTHER -> asmData
    /\ asmPrev' = asmData
    /\ asmIdx' = asmIdx + 1
    /\ UNCHANGED <<exists, file, driverVars, normVars, concVars, asmRun, asmPc,
                   asmPage, asmCard, asmChefPage, asmDefault, asmResult>>

\* extract_recipe_data, lines 209-309: fallbacks, chef page, clean-up, record
MobAssembleStep ==
    /\ asmRun = "extract_recipe_data" /\ asmPc = "jsonld"
    /\ asmIdx > Len(asmPage[1].lds)
    /\ asmResult' = MobAssemble(asmCard[1], asmPage[1], asmData, asmChefPage,
                                asmDefault)
    /\ asmPc' = "done"
    /\ UNCHANGED <<exists, file, driverVars, normVars, concVars, asmRun, asmPage,
                   asmCard, asmChefPage, asmDefault, asmIdx, asmData, asmPrev>>

NextAsm ==
    \/ HeroStep
    \/ JsonLdStep
    \/ OgStep
    \/ FinishStep
    \/ CardStep
    \/ MobJsonLdStep
    \/ MobAssembleStep

SpecAsm == InitAsm /\ [][NextAsm]_vars

\* the steps compute what the functions return
AsmAgrees ==
    asmPc = "done" =>
        IF asmRun = "scrape_recipe" THEN asmResult = scrape_recipe(asmPage)
        ELSE asmResult = extract_recipe_data(asmCard[1], asmPage, asmChefPage,
                                             asmDefault)

(***************************************************************************)
(* Two writers.  Two calls of save_to_csv run concurrently on one store,   *)
(* each for its own record.  A call reads the file (lines 255-265) and     *)
(* later writes it (lines 267-270); the section from open(..., 'w') to the *)
(* close that flushes the rows is one step.                                *)
(*   cPc      where each call is: "start", "read" (the rows are read),     *)
(*            "done"                                                       *)
(*   cRec     recipe_data of each call                                     *)
(*   cRows    rows of each call                                            *)
(*   cEarly   history: every read so far came before every write           *)
(*   cStore0  history: the store before the calls (None: no file)          *)
(***************************************************************************)
Writers == {1, 2}

\* a title neither scraper's pages of the model carry
T3 == "Sweet Soy Cod"

\* the records scrape_recipe returns in the model
ConcRecords == {o.rec[1] : o \in {x \in ScrapeOutcomes : x.rec # None}}

\* stores the calls start from: no file, a header, a header and one row
ConcStores ==
    {None, Some(<<fieldnames>>)}
        \cup {Some(<<fieldnames, writerow(r)>>) : r \in ConcRecords}
        \cup {Some(<<fieldnames, writerow([r EXCEPT !["Title"] = T3])>>) :
                r \in ConcRecords}

InitConc ==
    /\ DriverIdle /\ NormIdle /\ AsmIdle
    /\ cStore0 \in ConcStores
    /\ exists = (cStore0 # None)
    /\ file = IF cStore0 = None THEN <<>> ELSE cStore0[1]
    /\ cPc = [w \in Writers |-> "start"]
    /\ cRec \in [Writers -> ConcRecords]
    /\ cRows = [w \in Writers |-> <<>>]
    /\ cEarly = TRUE

\* faulty variant: the rows are read again when the file is written
RowsAtWrite_Reread(rows, exists_now, lines_now, recipe_data) ==
    RowsToWrite(exists_now, lines_now, recipe_data)

\* line 270 writes the list rows that lines 252-265 built, whatever the file
\* holds by then
RowsAtWrite(rows, exists_now, lines_now, recipe_data) == rows

\* save_to_csv, lines 252-265
ReadStore(w) ==
    /\ cPc[w] = "start"
    /\ cRows' = [cRows EXCEPT ![w] = RowsToWrite(exists, file, cRec[w])]
    /\ cPc' = [cPc EXCEPT ![w] = "read"]
    /\ cEarly' = (cEarly /\ \A v \in Writers : cPc[v] # "done")
    /\ UNCHANGED <<exists, file, driverVars, normVars, asmVars, cRec, cStore0>>

\* save_to_csv, lines 267-272
WriteStore(w) ==
    /\ cPc[w] = "read"
    /\ file' = <<fieldnames>>
                  \o writerows(RowsAtWrite(cRows[w], exists, file, cRec[w]))
    /\ exists' = TRUE
    /\ cPc' = [cPc EXCEPT ![w] = "done"]
    /\ UNCHANGED <<driverVars, normVars, asmVars, cRec, cRows, cEarly, cStore0>>

Read == \E w \in Writers : ReadStore(w)

Write == \E w \in Writers : WriteStore(w)

NextConc ==
    \/ Read
    \/ Write

SpecConc == InitConc /\ [][NextConc]_vars

(***************************************************************************)
(* Vocabulary of the properties.                                           *)
(***************************************************************************)
\* the rows csv.DictReader yields: the lines after the first
RowsRead(lines) == IF lines = <<>> THEN <<>> ELSE Tail(lines)

\* Image is column 1 and Title column 2 of fieldnames
ImageOf(line) == line[1]

TitleOf(line) == line[2]

CountTitle(lines, t) ==
    Cardinality({j \in 1..Len(lines) : lines[j] # fieldnames /\ TitleOf(lines[j]) = t})

OtherTitles(rows, t) == SelectSeq(rows, LAMBDA l : TitleOf(l) # t)

(***************************************************************************)
(* C1.  After save_to_csv(record, store) returns True the store holds at   *)
(* most one row whose Title is the record's, whatever the store held.      *)
(* Fails: every row with that Title is replaced, none removed.             *)
(***************************************************************************)
C1_AtMostOneRowAfterUpsert ==
    (lastOp.op = "upsert" /\ lastOp.ok)
        => CountTitle(file, lastOp.rec[1]["Title"]) <= 1

(***************************************************************************)
(* C2.  In every state reached from an absent store by upserts and batch   *)
(* appends, the store holds at most one data row per Title.                *)
(* Fails: the batch append writes what it extracted, duplicates included.  *)
(***************************************************************************)
C2_OneRowPerTitle ==
    \A j, k \in 1..Len(file) :
        (file[j] # fieldnames /\ file[k] # fieldnames
            /\ TitleOf(file[j]) = TitleOf(file[k])) => j = k

(***************************************************************************)
(* C3.  save_to_csv called twice in a row with the same record: the second *)
(* call leaves the store as the first left it, with exactly one row of     *)
(* that Title, the record's seven values in it.                            *)
(* Fails on a store that held the Title twice (C1).                        *)
(***************************************************************************)
C3_UpsertIdempotent ==
    (lastOp.op = "upsert" /\ lastOp.ok /\ lastOp.again)
        => /\ file = lastOp.before
           /\ CountTitle(file, lastOp.rec[1]["Title"]) = 1
           /\ \E j \in 1..Len(file) : file[j] = writerow(lastOp.rec[1])

(***************************************************************************)
(* C4.  No data row with an empty Title or an empty Image is ever written, *)
(* on either persistence path.                                             *)
(* Fails: extract_recipe_data returns records whose Image is empty.        *)
(***************************************************************************)
C4_NoRowWithoutTitleOrImage ==
    \A j \in 1..Len(file) :
        file[j] # fieldnames => (TitleOf(file[j]) # "" /\ ImageOf(file[j]) # "")

C6_BackupBeforeFirstWrite ==
    (run = "batch" /\ pc = "end" /\ lastOp.op = "append" /\ lastOp.beforeExists
        /\ file # lastOp.before)
        => (backupExists /\ backup = lastOp.before)

(***************************************************************************)
(* C7.  A store I/O failure is fatal to the run: no URL is handled after   *)
(* it, and with no backup the store is left as the last successful write   *)
(* left it.                                                                *)
(* Fails: main of scrape_individual_recipe ignores the False that          *)
(* save_to_csv returns and goes on; a write that raises part-way leaves    *)
(* the truncated or partly appended file.                                  *)
(***************************************************************************)
C7_StoreFailureIsFatal ==
    /\ ~afterFail
    /\ (lastOp.op \in {"upsert", "append"} /\ ~lastOp.ok /\ ~backupExists)
          => (exists = lastOp.beforeExists /\ file = lastOp.before)

(***************************************************************************)
(* C8.  A successful save_to_csv changes only the rows with the record's   *)
(* Title: the rows read with another Title are written back unchanged and  *)
(* in order; if a row read has the Title, each such row holds the record   *)
(* in its place and the row count is unchanged, otherwise the record is    *)
(* the last row and the count grows by one.  Rows are what DictReader      *)
(* yields, the lines after the first.                                      *)
(***************************************************************************)
C8_UpsertFrame ==
    (lastOp.op = "upsert" /\ lastOp.ok)
        => LET rec == writerow(lastOp.rec[1])
               t == TitleOf(rec)
               old == IF lastOp.beforeExists THEN RowsRead(lastOp.before) ELSE <<>>
               new == RowsRead(file)
           IN /\ OtherTitles(new, t) = OtherTitles(old, t)
              /\ IF \E j \in 1..Len(old) : TitleOf(old[j]) = t
                 THEN /\ Len(new) = Len(old)
                      /\ \A j \in 1..Len(old) :
                            new[j] = IF TitleOf(old[j]) = t THEN rec ELSE old[j]
                 ELSE new = Append(old, rec)

\* a successful upsert replaced a differing row of its Title next to a row
\* of another Title
C8_Witness ==
    /\ lastOp.op = "upsert" /\ lastOp.ok /\ lastOp.beforeExists
    /\ LET rec == writerow(lastOp.rec[1])
           old == RowsRead(lastOp.before)
       IN /\ \E j \in 1..Len(old) : TitleOf(old[j]) = TitleOf(rec) /\ old[j] # rec
          /\ \E j \in 1..Len(old) : TitleOf(old[j]) # TitleOf(rec)

(***************************************************************************)
(* C9.  A successful batch append writes a header row exactly when the     *)
(* store did not exist, leaves the lines already there unchanged and puts  *)
(* the extracted records after them in the order of extraction; on an      *)
(* absent store the file is the header and then the N records.             *)
(***************************************************************************)
C9_BatchAppend ==
    (pc = "end" /\ lastOp.op = "append" /\ lastOp.ok)
        => /\ exists
           /\ file = (IF lastOp.beforeExists THEN lastOp.before ELSE <<fieldnames>>)
                        \o writerows(recipes)

\* a successful append of records onto a store that held a header and a row
C9_Witness ==
    /\ pc = "end" /\ lastOp.op = "append" /\ lastOp.ok
    /\ lastOp.beforeExists /\ Len(lastOp.before) >= 2
    /\ Head(lastOp.before) = fieldnames
    /\ recipes # <<>>

(***************************************************************************)
(* C10.  A recipe URL whose fetch fails for good gives no record and no    *)
(* store write, and the run goes on to the URLs left; a failed fetch of    *)
(* the listing page ends the batch run with nothing written.               *)
(***************************************************************************)
C10_FetchFailureSkipsOneUrl ==
    /\ (lastOp.fetchFailed /\ lastOp.op \in {"skip", "upsert", "card"})
          => /\ lastOp.op \in {"skip", "card"}
             /\ lastOp.rec = None
             /\ exists = lastOp.beforeExists /\ file = lastOp.before
    /\ (lastOp.fetchFailed /\ lastOp.op = "listing")
          => /\ pc \in {"end", "idle"} /\ ~success
             /\ recipes = <<>>
             /\ exists = lastOp.beforeExists /\ file = lastOp.before
    /\ (run = "individual" /\ pc = "idle") => i = NumUrls + 1
    /\ (run = "batch" /\ pc = "end" /\ lastOp.op \in {"append", "no_recipes"})
          => i = nCards + 1

\* the fetch of a URL failed on a store that holds rows, and the loop of main
\* stands before the next URL
C10_Witness ==
    /\ run = "individual" /\ pc = "urls" /\ i <= NumUrls
    /\ lastOp.op = "skip" /\ lastOp.fetchFailed
    /\ exists /\ Len(file) >= 2

(***************************************************************************)
(* C11.  Strictly sequential per URL: when a driver stands before the      *)
(* fetch of the next URL, the records of the URLs before it are rows of    *)
(* the store (scrape_individual_recipe.main after a save_to_csv that       *)
(* returned True; MobScraper.scrape_recipes for every record it holds).    *)
(* Fails: scrape_recipes keeps the records in a list and writes them only  *)
(* after the last card was fetched.                                        *)
(***************************************************************************)
C11_WrittenBeforeNextFetch ==
    /\ (run = "individual" /\ pc = "urls" /\ lastOp.op = "upsert" /\ lastOp.ok)
          => \E j \in 1..Len(file) : file[j] = writerow(lastOp.rec[1])
    /\ (run = "batch" /\ pc = "cards" /\ i <= nCards)
          => \A n \in 1..Len(recipes) :
                exists /\ \E j \in 1..Len(file) : file[j] = writerow(recipes[n])

(***************************************************************************)
(* C12.  Image normalization is idempotent: a normalizer (the composition  *)
(* of scrape_recipe, the one of extract_recipe_data,                       *)
(* format_image_url_for_csv) applied to its own result gives that result.  *)
(* Fails: IndividualRecipeScraper.format_image_url takes the proxy URL it  *)
(* built through parse_qs and urlencode, which percent-encodes the url     *)
(* value; re.sub removes only every other one of adjacent crop segments,   *)
(* so a second pass of either scraper strips again.                        *)
(***************************************************************************)
C12_NormalizeIdempotent ==
    (normMode \in {"individual", "mob", "csv"} /\ Len(normOut) >= 2)
        => Str(normOut[2]) = Str(normOut[1])

(***************************************************************************)
(* C13.  format_image_url returns unchanged a non-empty URL that does not  *)
(* start with the proxy host, does not start with '/' or '//' and does not *)
(* hold the CDN hostname, in both scrapers.                                *)
(* Fails: IndividualRecipeScraper.format_image_url falls through to the    *)
(* query rewrite and appends the sizing parameters.                        *)
(***************************************************************************)
C13_UnrecognizedUrlUnchanged ==
    (/\ normMode \in {"format_image_url", "Mob_format_image_url"}
     /\ normIn # <<>>
     /\ ~StartsWith(normIn, PROXY)
     /\ ~StartsWithSlash(normIn)
     /\ \A n \in 1..Len(normIn) : normIn[n] \notin CdnTokens)
        => Str(normOut[1]) = Str(normIn)

(***************************************************************************)
(* Vocabulary of the assembler properties.                                 *)
(***************************************************************************)
\* the JSON-LD object the last step of the loop handled
LastLd == asmPage[1].lds[asmIdx - 1]

\* the last step handled a JSON-LD object of type ty
AfterLd(ty) == asmPc = "jsonld" /\ asmIdx > 1 /\ LastLd.type = ty

\* a call has returned a record
Returned(fn) == asmRun = fn /\ asmPc = "done" /\ asmResult # None

(***************************************************************************)
(* C14.  A Person object whose name differs from the chef name already     *)
(* resolved contributes neither Chef Name nor Chef Image, in scrape_recipe *)
(* and in extract_recipe_data.                                             *)
(* Fails: scrape_recipe takes the image of any Person object while Chef    *)
(* Image is empty, whatever the object's name.                             *)
(***************************************************************************)
C14_PersonNameMatch ==
    /\ (asmRun = "scrape_recipe" /\ AfterLd("Person")
            /\ asmPrev.ChefName # "" /\ LastLd.name # asmPrev.ChefName)
          => (asmData.ChefName = asmPrev.ChefName
                /\ asmData.ChefImage = asmPrev.ChefImage)
    /\ (asmRun = "extract_recipe_data" /\ AfterLd("Person")
            /\ AsmChefName # "" /\ LastLd.name # AsmChefName)
          => asmData.chefImg = asmPrev.chefImg

RECURSIVE GatheredTags(_)
\* the dietary tags of the Recipe objects of a page: recipeCategory, the
\* comma-split keywords, suitableForDiet and nutrition.suitableForDiet
GatheredTags(lds) ==
    IF lds = <<>> THEN <<>>
    ELSE (IF Head(lds).type = "Recipe"
          THEN Head(lds).recipeCategory \o Head(lds).keywords
                  \o Head(lds).suitableForDiet \o Head(lds).nutritionDiet
          ELSE <<>>)
         \o GatheredTags(Tail(lds))

\* tags trimmed, blanks and duplicates removed, sorted, joined with ', ';
\* with no tag left the default category, or 'None' when there is none
NormalizedDietary(tags, default_dietary_category) ==
    LET kept == SortedSet(SelectSeq(StripAll(tags), LAMBDA t : t # ""))
    IN IF kept # <<>> THEN Join(kept)
       ELSE IF default_dietary_category # "" THEN default_dietary_category
       ELSE "None"

(***************************************************************************)
(* C15.  The Dietary Requirements field of a record is its page's dietary  *)
(* tags trimmed, without blanks and duplicates, sorted and joined with     *)
(* ', '; 'None' with no tag left, or the default category when one was     *)
(* given.  For extract_recipe_data and for scrape_recipe.                  *)
(* Fails: scrape_recipe does not trim recipeCategory, keeps blank keywords,*)
(* never reads suitableForDiet, and keeps the tags of the last Recipe      *)
(* object only.                                                            *)
(***************************************************************************)
C15_DietaryNormalized ==
    (asmPc = "done" /\ asmResult # None)
        => asmResult[1]["Dietary Requirements"]
              = NormalizedDietary(GatheredTags(asmPage[1].lds), asmDefault)

\* the value scrape_recipe stores for an image URL v, lines 227-228
Normalized(v) == Str(format_image_url(strip_cropping_from_url(v)))

(***************************************************************************)
(* C16.  In scrape_recipe a non-empty value of the hero region is the      *)
(* value returned for Title, Description, Chef Name, Chef Image and Image  *)
(* (the image fields normalized), whatever the JSON-LD objects and the     *)
(* og:image tag carry.                                                     *)
(***************************************************************************)
C16_HeroValuesWin ==
    Returned("scrape_recipe")
        => LET hero == asmPage[1]
               rec == asmResult[1]
           IN /\ hero.heroTitle # "" => rec["Title"] = hero.heroTitle
              /\ hero.heroDesc # "" => rec["Description"] = hero.heroDesc
              /\ hero.heroChef # "" => rec["Chef Name"] = hero.heroChef
              /\ hero.heroChefImg # <<>>
                    => rec["Chef Image"] = Normalized(hero.heroChefImg)
              /\ hero.heroImg # <<>> => rec["Image"] = Normalized(hero.heroImg)

\* a record returned for a page whose hero region has all five values, a
\* Recipe object and a Person object carry other values for them, and the
\* og:image tag another image
C16_Witness ==
    /\ Returned("scrape_recipe")
    /\ LET hero == asmPage[1]
       IN /\ hero.heroTitle # "" /\ hero.heroDesc # "" /\ hero.heroChef # ""
          /\ hero.heroChefImg # <<>> /\ hero.heroImg # <<>>
          /\ hero.og # <<>> /\ hero.og # hero.heroImg
          /\ \E n \in 1..Len(hero.lds) :
                /\ hero.lds[n].type = "Recipe"
                /\ hero.lds[n].name \notin {"", hero.heroTitle}
                /\ LdDescription(hero.lds[n]) \notin {"", hero.heroDesc}
                /\ LdHasImage(hero.lds[n])
                /\ LdImageUrl(hero.lds[n]) # hero.heroImg
          /\ \E n \in 1..Len(hero.lds) :
                /\ hero.lds[n].type = "Person"
                /\ hero.lds[n].name \notin {"", hero.heroChef}
                /\ hero.lds[n].image.kind \in {"dict", "str"}
                /\ hero.lds[n].image.url # hero.heroChefImg

(***************************************************************************)
(* C17.  Every record returned by scrape_recipe or extract_recipe_data has *)
(* a non-empty Chef Name and a non-empty Chef Image: 'Mob' when no source  *)
(* gave a name, the default avatar when no source gave an image.           *)
(* Fails: extract_recipe_data applies no default; a card without a chef    *)
(* link gives Chef Name '' and Chef Image ''.                              *)
(***************************************************************************)
C17_ChefDefaults ==
    (asmPc = "done" /\ asmResult # None)
        => /\ asmResult[1]["Chef Name"] # ""
           /\ asmResult[1]["Chef Image"] # ""
           /\ (asmRun = "scrape_recipe" /\ asmData.ChefName = "")
                 => asmResult[1]["Chef Name"] = "Mob"
           /\ (asmRun = "scrape_recipe" /\ asmData.ChefImage = <<>>)
                 => asmResult[1]["Chef Image"] = DefaultChefImage

\* the two calls have returned, having both read before either wrote, for
\* records of two different Titles that the store did not hold
BothReadFirst ==
    /\ \A w \in Writers : cPc[w] = "done"
    /\ cEarly
    /\ cRec[1]["Title"] # cRec[2]["Title"]
    /\ \A w \in Writers :
          cStore0 = None \/ CountTitle(cStore0[1], cRec[w]["Title"]) = 0

(***************************************************************************)
(* C18.  save_to_csv is not safe under concurrent invocation: when two     *)
(* calls for records of distinct new Titles both read before either       *)
(* writes, the store they leave lacks one of the two records (and holds    *)
(* the other).                                                             *)
(***************************************************************************)
C18_ConcurrentUpsertLosesRecord ==
    BothReadFirst
        => \E w, v \in Writers :
              /\ CountTitle(file, cRec[w]["Title"]) = 0
              /\ CountTitle(file, cRec[v]["Title"]) = 1

\* such a run on a store that held a row: the row is kept, one record lost
C18_Witness ==
    /\ BothReadFirst
    /\ cStore0 # None /\ Len(cStore0[1]) = 2
    /\ Len(file) = 3 /\ file[2] = cStore0[1][2]
    /\ \E w \in Writers : CountTitle(file, cRec[w]["Title"]) = 0

(***************************************************************************)
(* C19.  save_to_csv rewrites the store atomically: after a call that      *)
(* failed the store is either as it was before the call or holds the       *)
(* complete merged content.                                                *)
(* Fails: open(..., 'w') truncates the file before a row is written; a     *)
(* failure after it leaves the file empty, header-only or a strict prefix  *)
(* of the rows.                                                            *)
(***************************************************************************)
C19_AtomicRewrite ==
    (lastOp.op = "upsert" /\ ~lastOp.ok)
        => \/ (exists = lastOp.beforeExists /\ file = lastOp.before)
           \/ (exists /\ file = <<fieldnames>>
                                  \o writerows(RowsToWrite(lastOp.beforeExists,
                                                           lastOp.before,
                                                           lastOp.rec[1])))

(***************************************************************************)
(* C20.  Among several Recipe objects the first non-empty value wins: a    *)
(* Recipe object neither overwrites nor clears an Image, a Description or  *)
(* dietary tags that the objects before it resolved, in                    *)
(* extract_recipe_data and in scrape_recipe.                               *)
(* Fails: extract_recipe_data assigns recipe_img and description from      *)
(* every Recipe object (the description even when the object has none);    *)
(* scrape_recipe replaces Dietary Requirements by the tags of the later    *)
(* object.                                                                 *)
(***************************************************************************)
C20_FirstRecipeObjectWins ==
    /\ (asmRun = "extract_recipe_data" /\ AfterLd("Recipe"))
          => /\ asmPrev.img # <<>> => asmData.img = asmPrev.img
             /\ asmPrev.desc # "" => asmData.desc = asmPrev.desc
             /\ SubSeq(asmData.diet, 1, Len(asmPrev.diet)) = asmPrev.diet
    /\ (asmRun = "scrape_recipe" /\ AfterLd("Recipe"))
          => /\ asmPrev.Image # <<>> => asmData.Image = asmPrev.Image
             /\ asmPrev.Description # "" => asmData.Description = asmPrev.Description
             /\ asmPrev.Dietary # "None" => asmData.Dietary = asmPrev.Dietary

====
